---- MODULE Spec2Model ----
(***************************************************************************)
(* Model of app.py: the haversine distance (calculate_distance), the CSV   *)
(* pipeline (process_locations_csv), the nearby query (find_nearby_users)  *)
(* and the part of main that chains them and exports the ranked dataset.   *)
(*                                                                         *)
(* Numbers.  Angles are integers in tenths of a degree; distances are      *)
(* integers in metres.  A float is a record [k, v]: k = "num" (finite, v   *)
(* is the value), "nan", or "inf" (either infinity).  The finite inputs    *)
(* are latitudes that are multiples of 180 degrees and arbitrary           *)
(* longitudes: on these the haversine formula of calculate_distance has    *)
(* an exact value (sin^2(dlat/2) is 0 or 1, cos(lat) is 1 or -1), which    *)
(* the operators below compute term by term.                               *)
(***************************************************************************)
EXTENDS Integers, Sequences, FiniteSets, TLC

(* ------------------------------ bounds --------------------------------- *)
MaxRows == 3
NearRadius == 12

(* ------------------------- program constants --------------------------- *)
R == 6371
SliderMin == 1
SliderMax == 50

HalfTurn == 1800
FullTurn == 2 * HalfTurn

(* ------------------------------ floats --------------------------------- *)
Num(x) == [k |-> "num", v |-> x]
NaN == [k |-> "nan", v |-> 0]
Inf == [k |-> "inf", v |-> 0]
Raise == [k |-> "raise", v |-> 0]

Abs(x) == IF x < 0 THEN -x ELSE x

\* x - y on floats: nan if either is nan or both are infinite
FSub(x, y) ==
    IF x.k = "nan" \/ y.k = "nan" THEN NaN
    ELSE IF x.k = "inf" /\ y.k = "inf" THEN NaN
    ELSE IF x.k = "inf" \/ y.k = "inf" THEN Inf
    ELSE Num(x.v - y.v)

\* math.sin / math.cos raise ValueError on an infinite argument
TrigRaises(x) == x.k = "inf"

\* sin(d / 2) ** 2 for d a multiple of 180 degrees: 0 or 1
SinHalfSq(d) == IF (Abs(d) \div HalfTurn) % 2 = 1 THEN 1 ELSE 0

\* cos(lat) for lat a multiple of 180 degrees: 1 or -1
Cos(lat) == IF (Abs(lat) \div HalfTurn) % 2 = 1 THEN -1 ELSE 1

\* the angle t in [0, 180] degrees with sin(t / 2) ** 2 = sin(d / 2) ** 2
Fold(d) ==
    LET m == Abs(d) % FullTurn
    IN  IF m > HalfTurn THEN FullTurn - m ELSE m

\* c = 2 * atan2(sqrt(a), sqrt(1 - a)) where a = s + cc * sin(dlon / 2) ** 2,
\* s = sin(dlat / 2) ** 2 in {0, 1} and cc = cos(lat1) * cos(lat2) in {1, -1}
CentralAngle(s, cc, dlon) ==
    IF s = 0 /\ cc = 1 THEN Fold(dlon)
    ELSE IF s = 1 /\ cc = -1 THEN HalfTurn - Fold(dlon)
    ELSE IF s = 0 THEN 0
    ELSE HalfTurn

\* R * c in metres, c in tenths of a degree (pi / 1.8 taken as 96 / 55)
ArcLength(c) == (R * c * 96) \div 55

PiR == ArcLength(HalfTurn)

calculate_distance(lat1, lon1, lat2, lon2) ==
    LET dlon == FSub(lon2, lon1)
        dlat == FSub(lat2, lat1)
    IN  IF TrigRaises(dlat) \/ TrigRaises(lat1) \/ TrigRaises(lat2) \/ TrigRaises(dlon)
        THEN Raise
        ELSE IF dlat.k = "nan" \/ lat1.k = "nan" \/ lat2.k = "nan" \/ dlon.k = "nan"
        THEN NaN
        ELSE Num(ArcLength(CentralAngle(SinHalfSq(dlat.v),
                                        Cos(lat1.v) * Cos(lat2.v), dlon.v)))

(* ------------------------------ inputs --------------------------------- *)
\* A CSV cell: text that parses to a finite number, text that parses to an
\* infinity ("inf"), or text that is not a number / a missing value.
NumCell(x) == [k |-> "num", v |-> x]
InfCell == [k |-> "inf", v |-> 0]
TextCell == [k |-> "text", v |-> 0]

LatCells == {NumCell(0), NumCell(HalfTurn), TextCell}
LonCells == {NumCell(0), NumCell(1), NumCell(2), TextCell, InfCell}
RefLats == {0}
RefLons == {0, 1}
Radii == {SliderMin, NearRadius, SliderMax}

InputCols == {"ID", "Latitude", "Longitude"}

RawRows ==
    UNION {[1..n -> [Latitude : LatCells, Longitude : LonCells]] : n \in 0..MaxRows}

\* an upload: not readable as a table with Latitude/Longitude columns, or a table
Uploads ==
    {[ok |-> FALSE, rows |-> <<>>]} \cup {[ok |-> TRUE, rows |-> r] : r \in RawRows}

(* ------------------------------ frames --------------------------------- *)
NoneFrame == [isNone |-> TRUE, cols |-> {}, rows |-> <<>>]
Frame(c, r) == [isNone |-> FALSE, cols |-> c, rows |-> r]
IsEmpty(f) == f.rows = <<>>

\* pd.to_numeric(..., errors='coerce')
to_numeric(cell) ==
    IF cell.k = "text" THEN NaN
    ELSE IF cell.k = "inf" THEN Inf
    ELSE Num(cell.v)

\* the frame read from the upload, Latitude and Longitude made numeric;
\* index is the row's position in the file
ReadRows(raw) ==
    [i \in 1..Len(raw) |->
        [index |-> i, ID |-> i,
         Latitude |-> to_numeric(raw[i].Latitude),
         Longitude |-> to_numeric(raw[i].Longitude),
         Distance_km |-> -1, Distance_Order |-> -1,
         Distance_From_Last_User_km |-> -1, Nearby_Order |-> -1]]

\* df.dropna(subset=['Latitude', 'Longitude'])
NotNa(row) == row.Latitude.k # "nan" /\ row.Longitude.k # "nan"
dropna(rows) == SelectSeq(rows, NotNa)

Injective(p) == \A i, j \in DOMAIN p : p[i] = p[j] => i = j

\* df.sort_values(key): the default sort kind is not stable, so every
\* ascending arrangement of the rows is a possible result
Ascending(rows, by) ==
    \A i, j \in 1..Len(rows) : i < j => rows[i][by] <= rows[j][by]

sort_values(rows, by) ==
    LET n == Len(rows)
        arr(p) == [i \in 1..n |-> rows[p[i]]]
    IN  {arr(p) : p \in {q \in [1..n -> 1..n] : Injective(q) /\ Ascending(arr(q), by)}}

\* df[col] = range(len(df))
DistanceOrderFromOne(i) == i
DistanceOrderAt(i) == i - 1
NearbyOrderAt(i) == i - 1

(* ------------------------- process_locations_csv ----------------------- *)
RankedCols == InputCols \cup {"Distance_km", "Distance_Order"}

ErrProcessing(exc) == [text |-> "Error processing CSV file", exc |-> exc]
ErrNoValidData == [text |-> "No valid location data found in the CSV file.", exc |-> ""]

Failed(exc) == [df |-> NoneFrame, shown |-> <<ErrProcessing(exc)>>]

\* df['Distance_km'] = df.apply(calculate_distance(reference, row))
WithDistance(rows, reference_lat, reference_lon) ==
    [i \in 1..Len(rows) |->
        [rows[i] EXCEPT !.Distance_km =
            calculate_distance(Num(reference_lat), Num(reference_lon),
                               rows[i].Latitude, rows[i].Longitude).v]]

DistanceRaises(rows, reference_lat, reference_lon) ==
    \E i \in 1..Len(rows) :
        calculate_distance(Num(reference_lat), Num(reference_lon),
                           rows[i].Latitude, rows[i].Longitude).k = "raise"

\* df['Distance_Order'] = range(len(df))
AssignDistanceOrder(rows) ==
    [i \in 1..Len(rows) |-> [rows[i] EXCEPT !.Distance_Order = DistanceOrderAt(i)]]

\* The possible results of process_locations_csv: the returned frame (or
\* None) and the messages it shows.  Every exception is caught and turned
\* into None: read_csv or the column lookup failing, the assignment of
\* apply's result on a frame left without rows (apply then returns a frame,
\* not a column), and calculate_distance raising inside apply.
process_locations_csv(csv_file, reference_lat, reference_lon) ==
    IF ~csv_file.ok THEN {Failed("read_csv")}
    ELSE LET rows == dropna(ReadRows(csv_file.rows))
         IN  IF rows = <<>> THEN {Failed("setitem")}
             ELSE IF DistanceRaises(rows, reference_lat, reference_lon)
             THEN {Failed("math domain error")}
             ELSE {[df |-> Frame(RankedCols, AssignDistanceOrder(sorted)), shown |-> <<>>] :
                     sorted \in sort_values(WithDistance(rows, reference_lat, reference_lon),
                                            "Distance_km")}

(* --------------------------- find_nearby_users ------------------------- *)
\* df['Distance_From_Last_User_km'] = df.apply(calculate_distance(last, row))
WithDistanceFromLast(rows, coords) ==
    [i \in 1..Len(rows) |->
        [rows[i] EXCEPT !.Distance_From_Last_User_km =
            calculate_distance(coords[1], coords[2],
                               rows[i].Latitude, rows[i].Longitude).v]]

\* <= max_distance_km, then > 0; distances in metres, the radius in km
WithinRadius(d, max_distance_km) == d <= max_distance_km * 1000
NotSelfOrZero(d) == d >= 0
NotSelf(d) == d > 0

\* returns (last_user, nearby_users, last_user_coords) and, as df is the
\* caller's object, leaves the new column in the caller's frame (df)
find_nearby_users(df, max_distance_km) ==
    IF df.isNone \/ IsEmpty(df) THEN [last_user |-> <<>>, nearby_users |-> NoneFrame,
                                      last_user_coords |-> <<>>, df |-> df]
    ELSE LET last_user == df.rows[Len(df.rows)]
             last_user_coords == <<last_user.Latitude, last_user.Longitude>>
             cols == df.cols \cup {"Distance_From_Last_User_km"}
             rows == WithDistanceFromLast(df.rows, last_user_coords)
             near(row) == WithinRadius(row.Distance_From_Last_User_km, max_distance_km)
             other(row) == NotSelf(row.Distance_From_Last_User_km)
         IN  [last_user |-> <<last_user>>,
              nearby_users |-> Frame(cols, SelectSeq(SelectSeq(rows, near), other)),
              last_user_coords |-> last_user_coords,
              df |-> Frame(cols, rows)]

\* nearby_users['Nearby_Order'] = range(len(nearby_users))
AssignNearbyOrder(rows) ==
    [i \in 1..Len(rows) |-> [rows[i] EXCEPT !.Nearby_Order = NearbyOrderAt(i)]]

(* --------------------------------- main -------------------------------- *)
VARIABLES uploaded_file, ref_lat, ref_lon, pc, df, shown, max_distance,
          last_user, nearby_users, last_coords, csv, args, result

vars == <<uploaded_file, ref_lat, ref_lon, pc, df, shown, max_distance,
          last_user, nearby_users, last_coords, csv, args, result>>

mainVars == <<uploaded_file, ref_lat, ref_lon, pc, df, shown, max_distance,
              last_user, nearby_users, last_coords, csv>>

NoCall == <<>>

\* a file has been uploaded and the reference point entered
Init ==
    /\ uploaded_file \in Uploads
    /\ ref_lat \in RefLats
    /\ ref_lon \in RefLons
    /\ pc = "process"
    /\ df = NoneFrame
    /\ shown = <<>>
    /\ max_distance = 0
    /\ last_user = <<>>
    /\ nearby_users = NoneFrame
    /\ last_coords = <<>>
    /\ csv = NoneFrame
    /\ args = NoCall
    /\ result = NoCall

\* df = process_locations_csv(uploaded_file, ref_lat, ref_lon)
Process ==
    /\ pc = "process"
    /\ \E out \in process_locations_csv(uploaded_file, ref_lat, ref_lon) :
          /\ df' = out.df
          /\ shown' = shown \o out.shown
          /\ pc' = IF ~out.df.isNone /\ ~IsEmpty(out.df) THEN "ranked" ELSE "nodata"
    /\ UNCHANGED <<uploaded_file, ref_lat, ref_lon, max_distance, last_user,
                   nearby_users, last_coords, csv, args, result>>

\* else: st.error("No valid location data found in the CSV file.")
NoValidData ==
    /\ pc = "nodata"
    /\ shown' = Append(shown, ErrNoValidData)
    /\ pc' = "done"
    /\ UNCHANGED <<uploaded_file, ref_lat, ref_lon, df, max_distance, last_user,
                   nearby_users, last_coords, csv, args, result>>

\* max_distance = st.slider(...); find_nearby_users(df, max_distance)
NearbyQuery ==
    /\ pc = "ranked"
    /\ \E r \in Radii :
          LET out == find_nearby_users(df, r)
          IN  /\ max_distance' = r
              /\ last_user' = out.last_user
              /\ nearby_users' = out.nearby_users
              /\ last_coords' = out.last_user_coords
              /\ df' = out.df
    /\ pc' = "nearby"
    /\ UNCHANGED <<uploaded_file, ref_lat, ref_lon, shown, csv, args, result>>

\* if last_user is not None and not nearby_users.empty: sort and number
OrderNearby ==
    /\ pc = "nearby"
    /\ IF last_user # <<>> /\ ~IsEmpty(nearby_users)
       THEN \E sorted \in sort_values(nearby_users.rows, "Distance_From_Last_User_km") :
               nearby_users' = Frame(nearby_users.cols \cup {"Nearby_Order"},
                                     AssignNearbyOrder(sorted))
       ELSE UNCHANGED nearby_users
    /\ pc' = "export"
    /\ UNCHANGED <<uploaded_file, ref_lat, ref_lon, df, shown, max_distance,
                   last_user, last_coords, csv, args, result>>

\* csv = df.to_csv(index=False), offered for download
Download ==
    /\ pc = "export"
    /\ csv' = df
    /\ pc' = "done"
    /\ UNCHANGED <<uploaded_file, ref_lat, ref_lon, df, shown, max_distance,
                   last_user, nearby_users, last_coords, args, result>>

Next == Process \/ NoValidData \/ NearbyQuery \/ OrderNearby \/ Download

Spec == Init /\ [][Next]_vars

(* ------------------- calculate_distance on its own --------------------- *)
LatInputs == {Num(0), Num(HalfTurn), NaN, Inf}
LonInputs == {Num(0), Num(1), Num(HalfTurn), NaN, Inf}

InitDistance ==
    /\ args \in LatInputs \X LonInputs \X LatInputs \X LonInputs
    /\ result = NoCall
    /\ pc = "distance"
    /\ uploaded_file = [ok |-> FALSE, rows |-> <<>>]
    /\ ref_lat = 0
    /\ ref_lon = 0
    /\ df = NoneFrame
    /\ shown = <<>>
    /\ max_distance = 0
    /\ last_user = <<>>
    /\ nearby_users = NoneFrame
    /\ last_coords = <<>>
    /\ csv = NoneFrame

CallDistance ==
    /\ pc = "distance"
    /\ result = NoCall
    /\ result' = <<calculate_distance(args[1], args[2], args[3], args[4])>>
    /\ UNCHANGED <<args, mainVars>>

NextDistance == CallDistance

SpecDistance == InitDistance /\ [][NextDistance]_vars

(* ------------------------------ properties ----------------------------- *)
Indexes(rows) == {rows[i].index : i \in 1..Len(rows)}
Max(S) == CHOOSE x \in S : \A y \in S : y <= x

\* rows of the upload whose latitude and longitude both parse as numbers
ParsedIndexes ==
    {i \in 1..Len(uploaded_file.rows) :
        /\ uploaded_file.rows[i].Latitude.k # "text"
        /\ uploaded_file.rows[i].Longitude.k # "text"}

Processed == pc # "process" /\ pc # "distance"
Queried == pc \in {"nearby", "export", "done"} /\ last_user # <<>>
Km(r) == r * 1000

\* C1: when the nearby query has run, the anchor is the last row of the
\* input order (unparseable rows dropped), not the last row of the
\* distance-sorted sequence.
C1_AnchorIsLastInputRow ==
    Queried => last_user[1].index = Max(ParsedIndexes)

\* C2: every record in the ranked frame, the nearby members and the export
\* has latitude in [-90, 90] and longitude in [-180, 180] degrees.
InRange(row) ==
    /\ row.Latitude.k = "num" /\ Abs(row.Latitude.v) <= 900
    /\ row.Longitude.k = "num" /\ Abs(row.Longitude.v) <= 1800

C2_OutputCoordinatesInRange ==
    \A f \in {df, nearby_users, csv} : \A i \in 1..Len(f.rows) : InRange(f.rows[i])

\* C3: after process, two records with equal distance_km are in the same
\* relative order as in the input (the sort is stable).
C3_SortIsStable ==
    (Processed /\ ~df.isNone) =>
        \A i, j \in 1..Len(df.rows) :
            (i < j /\ df.rows[i].Distance_km = df.rows[j].Distance_km)
                => df.rows[i].index < df.rows[j].index

\* C4: the ranked dataset handed over for display and CSV export has the
\* input columns plus Distance_km and Distance_Order and no other column,
\* also after the nearby query has run.
C4_RankedDatasetColumns ==
    /\ (Processed /\ ~df.isNone) => df.cols = RankedCols
    /\ (pc = "done" /\ ~csv.isNone) => csv.cols = RankedCols

\* C5: with zero rows with parseable coordinates the result is empty and
\* what the caller observes differs from what it observes for an upload
\* that cannot be parsed at all.
Texts(msgs) == [i \in 1..Len(msgs) |-> msgs[i].text]
Observed(frame, msgs) == <<frame.isNone, Texts(msgs)>>
ParseErrorObserved == Observed(NoneFrame, <<ErrProcessing("read_csv"), ErrNoValidData>>)

FromAnchor(row) ==
    calculate_distance(last_user[1].Latitude, last_user[1].Longitude,
                       row.Latitude, row.Longitude).v

C6_NearbyMembersExact ==
    Queried =>
        /\ Indexes(nearby_users.rows) =
              {df.rows[i].index : i \in {j \in 1..Len(df.rows) :
                  /\ 0 < FromAnchor(df.rows[j])
                  /\ FromAnchor(df.rows[j]) <= Km(max_distance)}}
        /\ Cardinality(Indexes(nearby_users.rows)) = Len(nearby_users.rows)
        /\ last_user[1].index \notin Indexes(nearby_users.rows)
        /\ \A i \in 1..Len(nearby_users.rows) :
              /\ nearby_users.rows[i].Distance_From_Last_User_km > 0
              /\ nearby_users.rows[i].Distance_From_Last_User_km <= Km(max_distance)

\* a query with a member, and with another record left out of the members
C6_Witness ==
    /\ Queried
    /\ Len(nearby_users.rows) >= 1
    /\ Len(nearby_users.rows) + 1 < Len(df.rows)

\* C7: a row is in the output of process iff its latitude and longitude
\* both parse as numbers, and then exactly once.
OutputRows == IF df.isNone THEN <<>> ELSE df.rows

C7_RowsKeptIffParsed ==
    (Processed /\ uploaded_file.ok) =>
        /\ Indexes(OutputRows) = ParsedIndexes
        /\ Len(OutputRows) = Cardinality(ParsedIndexes)

\* C8: after process on N valid rows, the record at output position i
\* (from 0) has distance_order i, so the values are exactly 0..N-1, and
\* distance_km is ascending along the output.
C8_DistanceOrderIsRank ==
    (Processed /\ ~df.isNone) =>
        /\ Len(df.rows) = Cardinality(ParsedIndexes)
        /\ \A i \in 1..Len(df.rows) : df.rows[i].Distance_Order = i - 1
        /\ {df.rows[i].Distance_Order : i \in 1..Len(df.rows)} = 0..(Len(df.rows) - 1)
        /\ \A i, j \in 1..Len(df.rows) :
              i < j => df.rows[i].Distance_km <= df.rows[j].Distance_km

\* a ranked frame of several rows whose order differs from the input's
C8_Witness ==
    /\ pc = "ranked"
    /\ Len(df.rows) >= 3
    /\ \E i, j \in 1..Len(df.rows) :
          /\ i < j
          /\ df.rows[i].index > df.rows[j].index
          /\ df.rows[i].Distance_km < df.rows[j].Distance_km

\* C9: the members are ascending by distance from the anchor, ties in the
\* order of the records passed in, with nearby_order equal to the position.
Position(rows, idx) == CHOOSE i \in 1..Len(rows) : rows[i].index = idx

C9_NearbyOrderStable ==
    (pc \in {"export", "done"} /\ last_user # <<>> /\ ~IsEmpty(nearby_users)) =>
        \A i, j \in 1..Len(nearby_users.rows) :
            LET a == nearby_users.rows[i]
                b == nearby_users.rows[j]
            IN  /\ a.Nearby_Order = i - 1
                /\ i < j => a.Distance_From_Last_User_km <= b.Distance_From_Last_User_km
                /\ (i < j /\ a.Distance_From_Last_User_km = b.Distance_From_Last_User_km)
                      => Position(df.rows, a.index) < Position(df.rows, b.index)

\* C10: calculate_distance never raises; on finite input it returns a value
\* in [0, pi * R], on NaN or infinite input it returns NaN or infinity.
Finite(x) == x.k = "num"

C10_DistanceTotalAndBounded ==
    result # NoCall =>
        /\ result[1].k # "raise"
        /\ (\A i \in 1..4 : Finite(args[i])) =>
              (result[1].k = "num" /\ 0 <= result[1].v /\ result[1].v <= PiR)
        /\ (\E i \in 1..4 : ~Finite(args[i])) => result[1].k \in {"nan", "inf"}

====
